---- MODULE Spec2Model ----
(***************************************************************************)
(* Soil-water balance simulator for maize (blck04/irrigation_model).       *)
(*                                                                         *)
(* Numbers.  The program computes in floating point.  Here every quantity  *)
(* in mm, mm/m or Kc is an integer count of thousandths (150 mm/m is       *)
(* 150000, Kc 1.15 is 1150); temperatures are whole degrees Celsius and    *)
(* solar radiation whole MJ/m2.  Products are scaled back by integer       *)
(* division.  Dates are day numbers (days since 2000-01-01, at midnight).  *)
(* Sample days of a Kc table are counts of tenths of a day, so that the    *)
(* integer conversion the lookup applies to them is a real truncation.     *)
(***************************************************************************)
EXTENDS Integers, Sequences, FiniteSets, TLC

VARIABLES
    field_capacity,        \* IrrigationModel.field_capacity
    wilting_point,         \* IrrigationModel.wilting_point
    irrigation_threshold,  \* IrrigationModel.irrigation_threshold
    kc_data,               \* DataProcessor.kc_data (None or a table)
    climate_data,          \* the frame handed to simulate() / DataProcessor.climate_data
    row_dtype,             \* dtype of the row Series that DataFrame.apply(axis=1) hands out
    initial_moisture,      \* simulate()'s initial_moisture argument (None or a number)
    results,               \* simulate()'s local frame `results`
    history,               \* the calls the model has returned from, with what they returned
    i,                     \* simulate()'s loop index
    pc,                    \* position of the running call
    call,                  \* the method called last, with its arguments
    ret,                   \* what the last call returned or raised
    climate_data_df,       \* IrrigationSimulator.climate_data_df
    soil_data_df,          \* IrrigationSimulator.soil_data_df
    kc_data_df,            \* IrrigationSimulator.kc_data_df
    climate_file_var,      \* the Climate Data entry, with the file its text names
    soil_file_var,         \* the Soil Data entry, with the file its text names
    kc_file_var,           \* the Crop Coefficient Data entry, with the file its text names
    simulation_results,    \* IrrigationSimulator.simulation_results
    displayed,             \* what the result tabs of the window show
    last_run,              \* how far the last run_simulation() got
    exported,              \* the files the last export_results() wrote
    season_data,           \* IrrigationSimulator.season_data
    field_capacity_var,    \* the Field Capacity entry of the window
    wilting_point_var,     \* the Wilting Point entry
    irrigation_threshold_var,  \* the Irrigation Threshold entry
    year_var,              \* the Select Year combobox
    gui_soil,              \* IrrigationSimulator.field_capacity, .wilting_point, .irrigation_threshold
    messages               \* the message boxes shown by the handler that ran last

gui_vars == << climate_data_df, soil_data_df, kc_data_df, climate_file_var,
               soil_file_var, kc_file_var, simulation_results, displayed, last_run, exported,
               season_data, field_capacity_var, wilting_point_var,
               irrigation_threshold_var, year_var, gui_soil, messages >>

vars == << field_capacity, wilting_point, irrigation_threshold, kc_data,
           climate_data, row_dtype, initial_moisture, results, history, i, pc, call,
           ret, gui_vars >>

\* Python's None for an optional number, and a number that is given.
NoneNum == [is_none |-> TRUE, value |-> 0]
Num(v) == [is_none |-> FALSE, value |-> v]

\* Python's None for an optional frame, and a frame with its rows in order.
NoneFrame == [is_none |-> TRUE, rows |-> << >>]
Frame(rows) == [is_none |-> FALSE, rows |-> rows]

Min(a, b) == IF a <= b THEN a ELSE b
Max(a, b) == IF a >= b THEN a ELSE b

\* The text of an entry of the window: one float() accepts, or one it rejects.
Text(v) == [is_float |-> TRUE, value |-> v]
BadText == [is_float |-> FALSE, value |-> 0]

\* A returned value, or a raised exception.
Returned(v) == [exc |-> "none", value |-> v]
Raised(e) == [exc |-> e, value |-> 0]

-----------------------------------------------------------------------------
(* Bounds of the model.                                                    *)

MaxDays == 3          \* longest frame handed to simulate()
MaxKcRows == 2        \* longest Kc table
MaxQueryDay == 200    \* largest day after planting asked of get_kc_for_day
MaxSeries == 2        \* longest loaded climate series in the season-window runs
MaxSimulations == 2   \* calls of simulate() on one model with the same arguments
MaxCalls == 2         \* calls of analyze_results() on one results frame
MaxEvents == 6        \* handlers run in one session of the window

-----------------------------------------------------------------------------
(* DataProcessor.calculate_eto_hargreaves                                  *)

\* Largest r in lo..hi with r*r <= x  (x >= 0, lo*lo <= x).
RECURSIVE SqrtSearch(_, _, _)
SqrtSearch(x, lo, hi) ==
    IF lo >= hi THEN lo
    ELSE LET mid == (lo + hi + 1) \div 2
         IN  IF mid * mid <= x THEN SqrtSearch(x, mid, hi)
             ELSE SqrtSearch(x, lo, mid - 1)

\* t_range ** 0.5 in thousandths, for t_range >= 0 in whole degrees.
Sqrt1000(t_range) == SqrtSearch(t_range * 1000000, 0, 46000)

\* tavg = (tmax+tmin)/2; t_range = tmax-tmin; ra = solar*0.408;
\* eto = 0.0023*(tavg+17.8)*(t_range ** 0.5)*ra; return max(0, eto).
\* `a` is (tavg + 17.8) in tenths, the root and ra are in thousandths, so
\* eto in thousandths is 23*a*root*ra / 10^8.
\* A negative t_range has no real power 0.5: on Python floats `**` yields a
\* complex number and max(0, eto) raises TypeError; on numpy float64 it
\* yields nan, nan > 0 is False and max(0, nan) returns 0.
calculate_eto_hargreaves(tmax, tmin, solar_radiation, dtype) ==
    LET a       == 5 * (tmax + tmin) + 178
        t_range == tmax - tmin
        ra      == solar_radiation * 408
    IN  IF t_range < 0
        THEN IF dtype = "object" THEN Raised("TypeError") ELSE Returned(0)
        ELSE LET eto == (((23 * a * Sqrt1000(t_range)) \div 10000) * ra) \div 10000
             IN  Returned(Max(0, eto))

-----------------------------------------------------------------------------
(* DataProcessor.get_kc_for_day                                            *)

\* Series.astype(int) on a sample day given in tenths: truncation.
astype_int(dap10) == dap10 \div 10

\* A slip in the default curve: the mid-season plateau ends a day early.
default_kc_short_plateau(day) ==
    IF day <= 25 THEN 300
    ELSE IF day <= 50 THEN 300 + (850 * (day - 25)) \div 25
    ELSE IF day < 90 THEN 1150
    ELSE 800

\* The default curve, lines 91-101 (Kc in thousandths).
\* 0.3 + (1.15 - 0.3) * (day - 25) / (50 - 25) is 300 + 850*(day-25)/25.
default_kc(day) ==
    IF day <= 25 THEN 300
    ELSE IF day <= 50 THEN 300 + (850 * (day - 25)) \div 25
    ELSE IF day <= 90 THEN 1150
    ELSE IF day <= 120 THEN 800
    ELSE 800

\* kc_frame is DataProcessor.kc_data: None, or a frame of rows
\* [dap |-> 'Day After Planting' in tenths of a day, Kc |-> thousandths].
\* closest_day is the largest converted sample day <= day (NaN when there is
\* none); the row taken is the first one whose converted day equals it.
get_kc_for_day(kc_frame, day) ==
    IF ~kc_frame.is_none
    THEN LET kc       == kc_frame.rows
             int_days == { astype_int(kc[k].dap) : k \in 1..Len(kc) }
             le_day   == { d \in int_days : d <= day }
         IN  IF le_day # {}
             THEN LET closest_day == CHOOSE d \in le_day : \A e \in le_day : e <= d
                      first == CHOOSE k \in 1..Len(kc) :
                                   /\ astype_int(kc[k].dap) = closest_day
                                   /\ \A j \in 1..(k-1) : astype_int(kc[j].dap) # closest_day
                  IN  kc[first].Kc
             ELSE default_kc(day)
    ELSE default_kc(day)

-----------------------------------------------------------------------------
(* Dates: pd.Timestamp values at midnight, as days since 2000-01-01.       *)

IsLeap(y) == (y % 4 = 0 /\ y % 100 # 0) \/ y % 400 = 0

DaysInMonth(y, m) ==
    IF m \in {1, 3, 5, 7, 8, 10, 12} THEN 31
    ELSE IF m \in {4, 6, 9, 11} THEN 30
    ELSE IF IsLeap(y) THEN 29 ELSE 28

RECURSIVE DaysBeforeMonth(_, _)
DaysBeforeMonth(y, m) ==
    IF m <= 1 THEN 0 ELSE DaysBeforeMonth(y, m - 1) + DaysInMonth(y, m - 1)

DaysBeforeYear(y) == 365 * (y - 2000) + Cardinality({ k \in 2000..(y - 1) : IsLeap(k) })

\* pd.Timestamp(f"{y}-{m:02d}-{d:02d}")
Timestamp(y, m, d) == DaysBeforeYear(y) + DaysBeforeMonth(y, m) + d - 1

-----------------------------------------------------------------------------
(* IrrigationModel.analyze_results                                         *)

\* Series.sum() of one column.
RECURSIVE SumCol(_, _)
SumCol(rows, col) ==
    IF rows = << >> THEN 0 ELSE Head(rows)[col] + SumCol(Tail(rows), col)

\* Line 110: (results['Irrigation (mm)'] > 0).sum()
irrigation_events(rows) == Len(SelectSeq(rows, LAMBDA r : r.Irrigation > 0))

\* Line 113.
conventional_irrigation == 500000

\* A slip in the savings: a deficit is reported as no saving.
water_savings_floored(total_irrigation) ==
    Max(0, conventional_irrigation - total_irrigation)

\* Line 115.
water_savings(total_irrigation) == conventional_irrigation - total_irrigation

\* Line 116, in thousandths of a percent.
water_savings_percent(savings) == (savings * 100) \div (conventional_irrigation \div 1000)

\* A slip in the stress count: a day at the threshold counts as stressed.
stress_days_at_threshold(rows, thr) ==
    Len(SelectSeq(rows, LAMBDA r : r.Soil_Moisture <= thr))

\* Line 119: (results['Soil Moisture (mm/m)'] < self.irrigation_threshold).sum()
stress_days(rows, thr) == Len(SelectSeq(rows, LAMBDA r : r.Soil_Moisture < thr))

\* Line 120: (results['Soil Moisture (mm/m)'] < (self.wilting_point + 10)).sum()
severe_stress_days(rows, wp) ==
    Len(SelectSeq(rows, LAMBDA r : r.Soil_Moisture < wp + 10000))

\* A slip in the label: ten severe days already give Low.
yield_potential_from_ten(severe, stress) ==
    IF severe >= 10 THEN "Low (< 5 tons/ha)"
    ELSE IF stress > 20 THEN "Medium (5-6 tons/ha)"
    ELSE "High (6-7 tons/ha)"

\* Lines 123-131.
yield_potential(severe, stress) ==
    IF severe > 10 THEN "Low (< 5 tons/ha)"
    ELSE IF stress > 20 THEN "Medium (5-6 tons/ha)"
    ELSE "High (6-7 tons/ha)"

\* A slip in the analysis: the summary dict is kept on the model between
\* calls, so the sums of a call start from those of the call before.
analyze_results_kept_dict(rows, wp, thr) ==
    LET before == IF call.op = "analyze_results" THEN ret.value.total_irrigation ELSE 0
        total_irrigation == before + SumCol(rows, "Irrigation")
        savings == water_savings(total_irrigation)
        stress == stress_days(rows, thr)
        severe == severe_stress_days(rows, wp)
    IN  [total_irrigation |-> total_irrigation,
         total_rainfall |-> SumCol(rows, "PRECTOT"),
         total_etc |-> SumCol(rows, "ETc"),
         irrigation_events |-> irrigation_events(rows),
         conventional_irrigation |-> conventional_irrigation,
         water_savings |-> savings,
         water_savings_percent |-> water_savings_percent(savings),
         stress_days |-> stress,
         severe_stress_days |-> severe,
         yield_potential |-> yield_potential(severe, stress)]

\* Lines 104-133: the summary dict of a results frame, for a model with
\* wilting point wp and irrigation threshold thr.
analyze_results(rows, wp, thr) ==
    LET total_irrigation == SumCol(rows, "Irrigation")
        savings == water_savings(total_irrigation)
        stress == stress_days(rows, thr)
        severe == severe_stress_days(rows, wp)
    IN  [total_irrigation |-> total_irrigation,
         total_rainfall |-> SumCol(rows, "PRECTOT"),
         total_etc |-> SumCol(rows, "ETc"),
         irrigation_events |-> irrigation_events(rows),
         conventional_irrigation |-> conventional_irrigation,
         water_savings |-> savings,
         water_savings_percent |-> water_savings_percent(savings),
         stress_days |-> stress,
         severe_stress_days |-> severe,
         yield_potential |-> yield_potential(severe, stress)]

-----------------------------------------------------------------------------
(* IrrigationSimulator.__init__: the window as it is created.              *)

\* The text of a file entry and the file it names: an empty entry, or a
\* path to a file (NoneFrame when there is no such file).
NoFile == [text |-> "", file |-> NoneFrame]
Path(file) == [text |-> "path", file |-> file]

\* The result tabs before any result is displayed.
NothingDisplayed ==
    [shown |-> FALSE, rows |-> << >>, year |-> 0,
     summary |-> analyze_results(<< >>, 0, 0)]

\* No file written by export_results() yet.
NothingExported ==
    [csv_written |-> FALSE, rows |-> << >>, summary_written |-> FALSE, year |-> 0,
     soil |-> [field_capacity |-> 0, wilting_point |-> 0, irrigation_threshold |-> 0],
     summary |-> analyze_results(<< >>, 0, 0)]

\* No run_simulation() yet.
NoRun == [load_data |-> FALSE, simulate_called |-> FALSE, simulate_raised |-> FALSE]

\* The attributes and entries that only run_simulation() and the file
\* dialogs touch, as __init__ leaves them.
IdleFiles ==
    /\ soil_data_df = NoneFrame
    /\ kc_data_df = NoneFrame
    /\ climate_file_var = NoFile
    /\ soil_file_var = NoFile
    /\ kc_file_var = NoFile
    /\ simulation_results = NoneFrame
    /\ displayed = NothingDisplayed
    /\ last_run = NoRun
    /\ exported = NothingExported

IdleGui ==
    /\ IdleFiles
    /\ climate_data_df = NoneFrame
    /\ season_data = NoneFrame
    /\ field_capacity_var = Text(150000)
    /\ wilting_point_var = Text(75000)
    /\ irrigation_threshold_var = Text(75000)
    /\ year_var = 2015
    /\ gui_soil = [field_capacity |-> 150000, wilting_point |-> 75000,
                   irrigation_threshold |-> 75000]
    /\ messages = {}

unchanged_gui == UNCHANGED gui_vars

-----------------------------------------------------------------------------
(* IrrigationModel.simulate                                                *)

\* A slip in the balance: the drainage cap of lines 81-82 is left out.
DailyBalance_no_drainage(prev_moisture, rainfall, etc, fc, wp, thr) ==
    LET m0 == prev_moisture + rainfall - etc
        irrigation == IF m0 < thr THEN fc - m0 ELSE 0
        m1 == IF m0 < thr THEN m0 + irrigation ELSE m0
        m3 == IF m1 < wp THEN wp ELSE m1
    IN  [moisture |-> m3, irrigation |-> irrigation]

\* A slip in the balance: the threshold test reads the previous day's
\* moisture instead of the day's own balance.
DailyBalance_prev_test(prev_moisture, rainfall, etc, fc, wp, thr) ==
    LET m0 == prev_moisture + rainfall - etc
        irrigation == IF prev_moisture < thr THEN fc - m0 ELSE 0
        m1 == m0 + irrigation
        m2 == IF m1 > fc THEN fc ELSE m1
        m3 == IF m2 < wp THEN wp ELSE m2
    IN  [moisture |-> m3, irrigation |-> irrigation]

\* A slip in the balance: irrigation makes up half of the deficit only.
DailyBalance_half_refill(prev_moisture, rainfall, etc, fc, wp, thr) ==
    LET m0 == prev_moisture + rainfall - etc
        irrigation == IF m0 < thr THEN (fc - m0) \div 2 ELSE 0
        m1 == m0 + irrigation
        m2 == IF m1 > fc THEN fc ELSE m1
        m3 == IF m2 < wp THEN wp ELSE m2
    IN  [moisture |-> m3, irrigation |-> irrigation]

\* A slip in the balance: irrigation refills to the threshold, not to field
\* capacity.
DailyBalance_refill_to_threshold(prev_moisture, rainfall, etc, fc, wp, thr) ==
    LET m0 == prev_moisture + rainfall - etc
        irrigation == IF m0 < thr THEN thr - m0 ELSE 0
        m1 == m0 + irrigation
        m2 == IF m1 > fc THEN fc ELSE m1
        m3 == IF m2 < wp THEN wp ELSE m2
    IN  [moisture |-> m3, irrigation |-> irrigation]

\* One pass of the loop body, lines 66-90, on the values it reads.
DailyBalance(prev_moisture, rainfall, etc, fc, wp, thr) ==
    LET m0 == prev_moisture + rainfall - etc                    \* line 71
        irrigation == IF m0 < thr THEN fc - m0 ELSE 0           \* lines 74-77
        m1 == IF m0 < thr THEN m0 + irrigation ELSE m0          \* line 78
        m2 == IF m1 > fc THEN fc ELSE m1                        \* lines 81-82
        m3 == IF m2 < wp THEN wp ELSE m2                        \* lines 85-86
    IN  [moisture |-> m3, irrigation |-> irrigation]

\* A slip in the seeding: `if not initial_moisture` for `is None`, which
\* replaces a given 0 by the default as well.
SeedMoisture_falsy(init, fc) ==
    IF init.is_none \/ init.value = 0 THEN (7 * fc) \div 10 ELSE init.value

\* A slip in the seeding: the model remembers the moisture it ended on, and
\* a call without initial_moisture starts from it.
SeedMoisture_carried_over(init, fc) ==
    IF ~init.is_none THEN init.value
    ELSE IF results # << >> THEN results[Len(results)].Soil_Moisture
    ELSE (7 * fc) \div 10

\* Lines 35-36: initial_moisture, or 0.7 * field_capacity when it is None.
SeedMoisture(init, fc) ==
    IF init.is_none THEN (7 * fc) \div 10 ELSE init.value

\* results['ETo (mm)'] for one row (lines 42-49).
RowETo(rec, dtype) ==
    calculate_eto_hargreaves(rec.T2M_MAX, rec.T2M_MIN, rec.ALLSKY_SFC_SW_DWN, dtype)

\* The row of `results` built from an input row by lines 39-59: the copied
\* columns, ETo, Kc, ETc = ETo * Kc, and the two columns initialised to 0.0.
ResultRow(rec, kc_frame, dtype) ==
    LET eto == RowETo(rec, dtype).value
        kc  == get_kc_for_day(kc_frame, rec.Day)
    IN  [ETo |-> eto, Kc |-> kc, ETc |-> (eto * kc) \div 1000,
         Soil_Moisture |-> 0, Irrigation |-> 0] @@ rec

\* The inputs of a run: weather of one day.
Weather ==
    { [PRECTOT |-> 0,     T2M_MAX |-> 30, T2M_MIN |-> 15, ALLSKY_SFC_SW_DWN |-> 20],
      [PRECTOT |-> 60000, T2M_MAX |-> 25, T2M_MIN |-> 18, ALLSKY_SFC_SW_DWN |-> 10],
      [PRECTOT |-> 5000,  T2M_MAX |-> 10, T2M_MIN |-> 20, ALLSKY_SFC_SW_DWN |-> 15],
      [PRECTOT |-> 0,     T2M_MAX |-> 44, T2M_MIN |-> 8,  ALLSKY_SFC_SW_DWN |-> 30] }

\* Day after planting of the first row of a frame handed to simulate().
FirstDays == {0, 60}

\* Soil parameters [fc, wp, thr]: the defaults of __init__, an ordered
\* profile, and profiles that break wp < thr < fc in each way.
SoilProfiles ==
    { <<150000, 75000, 75000>>, <<150000, 75000, 100000>>,
      <<100000, 50000, 150000>>, <<150000, 100000, 80000>>,
      <<80000, 100000, 90000>> }

InitialMoistures == { NoneNum, Num(0), Num(102000), Num(200000) }

ClimateRow(w, first_day, k) ==
    [Date |-> Timestamp(2018, 10, 1) + first_day + k, PRECTOT |-> w.PRECTOT, T2M_MAX |-> w.T2M_MAX,
     T2M_MIN |-> w.T2M_MIN, ALLSKY_SFC_SW_DWN |-> w.ALLSKY_SFC_SW_DWN,
     Day |-> first_day + k]

\* Frames of 0..MaxDays consecutive days.
ClimateFrames ==
    UNION { { Frame([k \in 1..n |-> ClimateRow(ws[k], d, k - 1)]) :
                ws \in [1..n -> Weather], d \in FirstDays } : n \in 0..MaxDays }

SimKcTables == { NoneFrame, Frame(<< [dap |-> 0, Kc |-> 1200] >>) }

InitSim ==
    /\ \E p \in SoilProfiles :
          /\ field_capacity = p[1]
          /\ wilting_point = p[2]
          /\ irrigation_threshold = p[3]
    /\ kc_data \in SimKcTables
    /\ climate_data \in ClimateFrames
    /\ row_dtype \in {"object", "float64"}
    /\ initial_moisture \in InitialMoistures
    /\ results = << >>
    /\ history = << >>
    /\ i = 0
    /\ pc = "call"
    /\ call = [op |-> "simulate"]
    /\ ret = Returned(0)
    /\ IdleGui

\* What simulate() only reads: the model, the Kc table and its arguments.
unchanged_model ==
    /\ UNCHANGED << field_capacity, wilting_point, irrigation_threshold, kc_data,
                    row_dtype, initial_moisture, call >>
    /\ unchanged_gui

unchanged_inputs ==
    /\ UNCHANGED climate_data
    /\ unchanged_model

\* A slip in the set-up: `results = climate_data`, so that every write to
\* results is a write to the caller's frame.
CallersFrame_no_copy(input_rows, result_rows) == result_rows

\* Line 39, results = climate_data.copy(): the caller's frame after a write
\* to results is the frame as it was.
CallersFrame(input_rows, result_rows) == input_rows

\* Lines 35-62 raise.  A row whose ETo raises aborts the apply of line 42.
\* An empty frame has no results.index[0] at line 62 (IndexError), unless
\* pandas has already refused the column assignment of line 42 (ValueError).
SimulateRaise ==
    /\ pc = "call"
    /\ LET rows == climate_data.rows
           bad  == { k \in 1..Len(rows) : RowETo(rows[k], row_dtype).exc # "none" }
       IN  \/ /\ bad # {}
              /\ ret' = Raised("TypeError")
           \/ /\ Len(rows) = 0
              /\ \E e \in {"ValueError", "IndexError"} : ret' = Raised(e)
    /\ pc' = "raised"
    /\ UNCHANGED << results, history, i >>
    /\ unchanged_inputs

\* Lines 35-62: the copy with its derived columns, row 0 seeded.
SimulateEnter ==
    /\ pc = "call"
    /\ LET rows == climate_data.rows
           seed == SeedMoisture(initial_moisture, field_capacity)
           built == [k \in 1..Len(rows) |-> ResultRow(rows[k], kc_data, row_dtype)]
       IN  /\ Len(rows) > 0
           /\ \A k \in 1..Len(rows) : RowETo(rows[k], row_dtype).exc = "none"
           /\ results' = [built EXCEPT ![1].Soil_Moisture = seed]
    /\ climate_data' = Frame(CallersFrame(climate_data.rows, results'))
    /\ i' = 1
    /\ pc' = "loop"
    /\ UNCHANGED << ret, history >>
    /\ unchanged_model

\* Lines 65-90: one pass of the loop, for Python's index i (row i + 1 here).
SimulateDay ==
    /\ pc = "loop"
    /\ i < Len(results)
    /\ LET b == DailyBalance(results[i].Soil_Moisture, results[i + 1].PRECTOT,
                             results[i + 1].ETc, field_capacity, wilting_point,
                             irrigation_threshold)
       IN  results' = [results EXCEPT ![i + 1].Soil_Moisture = b.moisture,
                                      ![i + 1].Irrigation = b.irrigation]
    /\ climate_data' = Frame(CallersFrame(climate_data.rows, results'))
    /\ i' = i + 1
    /\ UNCHANGED << pc, ret, history >>
    /\ unchanged_model

\* Line 92.
SimulateReturn ==
    /\ pc = "loop"
    /\ i >= Len(results)
    /\ pc' = "returned"
    /\ ret' = Returned(Len(results))
    /\ history' = Append(history, [op |-> "simulate", value |-> results])
    /\ UNCHANGED << results, i >>
    /\ unchanged_inputs

\* analyze_results(results) on the frame simulate() has just returned.
AnalyzeReturned ==
    /\ pc = "returned"
    /\ history[Len(history)].op = "simulate"
    /\ history' = Append(history,
                         [op |-> "analyze_results",
                          value |-> analyze_results(results, wilting_point,
                                                    irrigation_threshold)])
    /\ UNCHANGED << results, i, pc, ret >>
    /\ unchanged_inputs

\* simulate() is called again on the same model with the same arguments.
\* The locals of the call before are gone with its frame; `results` is
\* bound anew at line 39.
SimulateAgain ==
    /\ pc = "returned"
    /\ Cardinality({ k \in 1..Len(history) : history[k].op = "simulate" }) < MaxSimulations
    /\ pc' = "call"
    /\ ret' = Returned(0)
    /\ UNCHANGED << results, history, i >>
    /\ unchanged_inputs

NextSim == SimulateRaise \/ SimulateEnter \/ SimulateDay \/ SimulateReturn

Spec == InitSim /\ [][NextSim]_vars

\* One model called again and again: a season that starts on the planting
\* day, no Kc table, the default seed or a seed of 102 mm.
InitRepeat ==
    /\ InitSim
    /\ kc_data = NoneFrame
    /\ initial_moisture \in {NoneNum, Num(102000)}
    /\ \A k \in 1..Len(climate_data.rows) : climate_data.rows[k].Day = k - 1

NextRepeat == NextSim \/ AnalyzeReturned \/ SimulateAgain

SpecRepeat == InitRepeat /\ [][NextRepeat]_vars

\* Lines 65-90 as a whole: the frame after the passes for rows 2..n.
RECURSIVE SimulateDays(_, _, _, _, _)
SimulateDays(rows, n, fc, wp, thr) ==
    IF n <= 1 THEN rows
    ELSE LET done == SimulateDays(rows, n - 1, fc, wp, thr)
             b == DailyBalance(done[n - 1].Soil_Moisture, done[n].PRECTOT,
                               done[n].ETc, fc, wp, thr)
         IN  [done EXCEPT ![n].Soil_Moisture = b.moisture,
                          ![n].Irrigation = b.irrigation]

\* The columns simulate() reads: lines 44-46 and 52, and line 68 of the loop.
SimulateCols == {"T2M_MAX", "T2M_MIN", "ALLSKY_SFC_SW_DWN", "Day", "PRECTOT"}

\* One call simulate(frame, init) as a whole, on a model with parameters
\* fc, wp, thr and Kc table kc_frame: the set of its possible outcomes.
simulate(frame, init, fc, wp, thr, kc_frame, dtype) ==
    LET rows == frame.rows
        columns == IF rows = << >> THEN SimulateCols ELSE DOMAIN rows[1]
        bad == { k \in 1..Len(rows) : RowETo(rows[k], dtype).exc # "none" }
        built == [k \in 1..Len(rows) |-> ResultRow(rows[k], kc_frame, dtype)]
    IN  IF ~((SimulateCols \ {"PRECTOT"}) \subseteq columns) THEN {Raised("KeyError")}
        ELSE IF bad # {} THEN {Raised("TypeError")}
        ELSE IF Len(rows) = 0 THEN {Raised("ValueError"), Raised("IndexError")}
        ELSE IF Len(rows) > 1 /\ "PRECTOT" \notin columns THEN {Raised("KeyError")}
        ELSE {Returned(SimulateDays([built EXCEPT ![1].Soil_Moisture = SeedMoisture(init, fc)],
                                    Len(rows), fc, wp, thr))}

-----------------------------------------------------------------------------
(* Claims about simulate(), checked under Spec.                            *)

\* Rows 2..i of `results` are the days after day 0 the loop has written.
DaysDone == IF pc \in {"loop", "returned"} THEN 2..i ELSE {}

OrderedProfile ==
    wilting_point < irrigation_threshold /\ irrigation_threshold < field_capacity

\* The balance of day k before irrigation, from the previous day's moisture
\* and the input row's own weather.
Candidate(k) ==
    LET rec == climate_data.rows[k]
        eto == calculate_eto_hargreaves(rec.T2M_MAX, rec.T2M_MIN,
                                        rec.ALLSKY_SFC_SW_DWN, row_dtype).value
        etc == (eto * get_kc_for_day(kc_data, rec.Day)) \div 1000
    IN  results[k - 1].Soil_Moisture + rec.PRECTOT - etc

\* C1: with wilting_point < irrigation_threshold < field_capacity, soil
\* moisture lies within [wilting_point, field_capacity] on every day after
\* day 0, whatever the initial moisture and the weather.
C1_MoistureWithinBounds ==
    OrderedProfile =>
        \A k \in DaysDone :
            /\ results[k].Soil_Moisture >= wilting_point
            /\ results[k].Soil_Moisture <= field_capacity

\* A finished run on an ordered profile in which one day's balance exceeded
\* field capacity and another day's fell below the threshold.
C1_Witness ==
    /\ pc = "returned"
    /\ OrderedProfile
    /\ \E k \in DaysDone : Candidate(k) > field_capacity
    /\ \E k \in DaysDone : Candidate(k) < irrigation_threshold

\* C2: irrigation_mm is >= 0 on every day of every result, for any soil
\* parameters simulate() accepts and any weather.
C2_IrrigationNonNegative ==
    pc \in {"loop", "returned"} =>
        \A k \in 1..Len(results) : results[k].Irrigation >= 0

\* C3: on every day after day 0, candidate = moisture[i-1] + precipitation
\* - eto * kc; irrigation = field_capacity - candidate if candidate is below
\* the threshold, else 0; moisture = the candidate plus irrigation, capped at
\* field_capacity and then floored at wilting_point.
C3_DailyStep ==
    \A k \in DaysDone :
        LET cand == Candidate(k)
            irr  == IF cand < irrigation_threshold THEN field_capacity - cand ELSE 0
        IN  /\ results[k].Irrigation = irr
            /\ results[k].Soil_Moisture =
                   Max(wilting_point, Min(field_capacity, cand + irr))

\* A finished run in which one day irrigated and another day did not and had
\* its value changed by the clamp.
C3_Witness ==
    /\ pc = "returned"
    /\ \E k \in DaysDone : Candidate(k) < irrigation_threshold
    /\ \E k \in DaysDone :
          /\ Candidate(k) >= irrigation_threshold
          /\ results[k].Soil_Moisture # Candidate(k)

\* C4: day 0 holds initial_moisture (0.7 * field_capacity when none is
\* given) and irrigation 0, unclamped and untouched by day 0's weather, for
\* the rest of the run; a one-record season returns that single day.
C4_SeededDayZero ==
    pc \in {"loop", "returned"} =>
        /\ results[1].Soil_Moisture =
               (IF initial_moisture.is_none THEN (7 * field_capacity) \div 10
                ELSE initial_moisture.value)
        /\ results[1].Irrigation = 0
        /\ (Len(climate_data.rows) = 1 /\ pc = "returned") =>
               (Len(results) = 1 /\ i = 1)

\* A one-record season returned with a seed outside [wp, fc], on a day with
\* rain.
C4_Witness ==
    /\ pc = "returned"
    /\ Len(results) = 1
    /\ ~initial_moisture.is_none
    /\ results[1].Soil_Moisture > field_capacity
    /\ results[1].PRECTOT > 0

-----------------------------------------------------------------------------
(* Calls of the pure methods of DataProcessor.                             *)

\* State of the simulate() variables while another method is exercised.
IdleSimulate ==
    /\ field_capacity = 150000
    /\ wilting_point = 75000
    /\ irrigation_threshold = 75000
    /\ row_dtype = "object"
    /\ initial_moisture = NoneNum
    /\ results = << >>
    /\ history = << >>
    /\ i = 0

unchanged_simulate ==
    UNCHANGED << field_capacity, wilting_point, irrigation_threshold, row_dtype,
                 initial_moisture, results, history, i >>

Temperatures == {-40, -30, 0, 8, 10, 15, 18, 20, 25, 30, 44}
Radiations == {-1, 0, 5, 20, 30}

InitEto ==
    /\ IdleSimulate
    /\ kc_data = NoneFrame
    /\ climate_data = NoneFrame
    /\ pc = "idle"
    /\ call = [op |-> "none"]
    /\ ret = Returned(0)
    /\ IdleGui

\* One call calculate_eto_hargreaves(tmax, tmin, solar_radiation) with
\* Python floats ("object") or numpy float64 arguments.
CalculateEto ==
    /\ pc = "idle"
    /\ \E tmax \in Temperatures, tmin \in Temperatures, solar \in Radiations,
          dtype \in {"object", "float64"} :
          /\ call' = [op |-> "calculate_eto_hargreaves", tmax |-> tmax,
                      tmin |-> tmin, solar_radiation |-> solar, dtype |-> dtype]
          /\ ret' = calculate_eto_hargreaves(tmax, tmin, solar, dtype)
    /\ pc' = IF ret'.exc = "none" THEN "returned" ELSE "raised"
    /\ UNCHANGED << kc_data, climate_data >>
    /\ unchanged_simulate
    /\ unchanged_gui

SpecEto == InitEto /\ [][CalculateEto]_vars

\* C5: eto(tmax, tmin, solar) is a number >= 0 for all finite inputs, and
\* when tmin > tmax it is 0 and no error is raised.
C5_EtoNonNegative ==
    call.op = "calculate_eto_hargreaves" =>
        /\ ret.exc = "none"
        /\ ret.value >= 0
        /\ call.tmin > call.tmax => ret.value = 0

\* Rows of a Kc table: sample days 0, 10, 10.5, 30 and 95.
KcSampleDays == {0, 100, 105, 300, 950}
KcSampleValues == {400, 1200}
KcRows == [dap : KcSampleDays, Kc : KcSampleValues]

KcTables ==
    {NoneFrame} \cup
    UNION { { Frame(t) : t \in [1..n -> KcRows] } : n \in 0..MaxKcRows }

InitKc ==
    /\ IdleSimulate
    /\ kc_data \in KcTables
    /\ climate_data = NoneFrame
    /\ pc = "idle"
    /\ call = [op |-> "none"]
    /\ ret = Returned(0)
    /\ IdleGui

\* One call get_kc_for_day(day).
GetKcForDay ==
    /\ pc = "idle"
    /\ \E day \in 0..MaxQueryDay :
          /\ call' = [op |-> "get_kc_for_day", day |-> day]
          /\ ret' = Returned(get_kc_for_day(kc_data, day))
    /\ pc' = "returned"
    /\ UNCHANGED << kc_data, climate_data >>
    /\ unchanged_simulate
    /\ unchanged_gui

SpecKc == InitKc /\ [][GetKcForDay]_vars

\* C6: with no Kc samples loaded, kc(day) is 0.3 up to day 25, 0.3 + 0.85 *
\* (day - 25)/25 up to day 50, 1.15 up to day 90 and 0.8 after day 90.
C6_DefaultCurve ==
    (call.op = "get_kc_for_day" /\ kc_data.is_none) =>
        LET day == call.day
            kc  == ret.value
        IN  /\ day <= 25 => kc = 300
            /\ (25 < day /\ day <= 50) => kc = 300 + 34 * (day - 25)
            /\ (50 < day /\ day <= 90) => kc = 1150
            /\ day > 90 => kc = 800
            /\ day \in {0, 25} => kc = 300
            /\ day \in {50, 75, 90} => kc = 1150
            /\ day \in {91, 200} => kc = 800

\* The last day of the plateau answered from the default curve.
C6_Witness ==
    /\ call.op = "get_kc_for_day"
    /\ kc_data.is_none
    /\ call.day = 90
    /\ ret.value = 1150

\* The samples of the loaded table whose day is <= the query day.
SamplesUpTo(day) ==
    { k \in 1..Len(kc_data.rows) : kc_data.rows[k].dap <= 10 * day }

\* C7: with Kc samples loaded, kc(day) is the Kc of a sample with the largest
\* sample day <= day, and the default curve's value when there is none.
C7_StepHold ==
    (call.op = "get_kc_for_day" /\ ~kc_data.is_none) =>
        LET day == call.day
            le  == SamplesUpTo(day)
        IN  IF le = {}
            THEN ret.value = default_kc(day)
            ELSE \E k \in le :
                    /\ \A j \in le : kc_data.rows[j].dap <= kc_data.rows[k].dap
                    /\ ret.value = kc_data.rows[k].Kc

-----------------------------------------------------------------------------
(* DataProcessor.filter_growing_season                                     *)

\* A slip in the window: a season ending in its starting month is taken to
\* end in the following year.
SeasonWindow_wrap_equal(year, start_month, end_month) ==
    LET end_year == IF end_month <= start_month THEN year + 1 ELSE year
    IN  [start_date |-> Timestamp(year, start_month, 1),
         end_date |-> IF end_month = 12 THEN Timestamp(end_year, 12, 31)
                      ELSE Timestamp(end_year, end_month + 1, 1) - 1]

\* A slip in the window: the last day of the end month is taken to be its
\* 30th.
SeasonWindow_day_30(year, start_month, end_month) ==
    LET end_year == IF end_month < start_month THEN year + 1 ELSE year
    IN  [start_date |-> Timestamp(year, start_month, 1),
         end_date |-> Timestamp(end_year, end_month, 30)]

\* Lines 49-60: start_date and end_date.
SeasonWindow(year, start_month, end_month) ==
    LET start_date == Timestamp(year, start_month, 1)
        end_year == IF end_month < start_month THEN year + 1 ELSE year
        next_month == end_month + 1
        next_month_year == IF next_month > 12 THEN end_year + 1 ELSE end_year
        next_month_1 == IF next_month > 12 THEN 1 ELSE next_month
        end_date == IF end_month = 12 THEN Timestamp(end_year, 12, 31)
                    ELSE Timestamp(next_month_year, next_month_1, 1) - 1
    IN  [start_date |-> start_date, end_date |-> end_date]

\* df[(df['Date'] >= start_date) & (df['Date'] <= end_date)].copy()
RowsBetween(rows, start_date, end_date) ==
    SelectSeq(rows, LAMBDA r : r.Date >= start_date /\ r.Date <= end_date)

\* season_data['Day'] = (season_data['Date'] - start_date).dt.days
AddDay(rows, start_date) ==
    [k \in 1..Len(rows) |-> ("Day" :> (rows[k].Date - start_date)) @@ rows[k]]

\* A slip in the filter: the end date is excluded.
filter_growing_season_open_end(frame, year, start_month, end_month) ==
    IF frame.is_none THEN Raised("ValueError")
    ELSE LET w == SeasonWindow(year, start_month, end_month)
         IN  Returned(Frame(AddDay(RowsBetween(frame.rows, w.start_date, w.end_date - 1),
                                   w.start_date)))

\* Lines 46-70, on DataProcessor.climate_data.
filter_growing_season(frame, year, start_month, end_month) ==
    IF frame.is_none THEN Raised("ValueError")
    ELSE LET w == SeasonWindow(year, start_month, end_month)
         IN  Returned(Frame(AddDay(RowsBetween(frame.rows, w.start_date, w.end_date),
                                   w.start_date)))

-----------------------------------------------------------------------------
(* IrrigationSimulator.process_data                                        *)

Msg(kind, title) == [kind |-> kind, title |-> title]

RequiredCols == {"T2M_MAX", "T2M_MIN", "ALLSKY_SFC_SW_DWN", "PRECTOT", "Day"}

\* A slip in the checks: equal values pass.
ParameterWarnings_strict(fc, wp, thr) ==
    (IF wp > thr THEN {Msg("warning", "Parameter Check: wilting point")} ELSE {}) \cup
    (IF thr > fc THEN {Msg("warning", "Parameter Check: threshold")} ELSE {})

\* Lines 270-273: the two parameter warnings.
ParameterWarnings(fc, wp, thr) ==
    (IF wp >= thr THEN {Msg("warning", "Parameter Check: wilting point")} ELSE {}) \cup
    (IF thr >= fc THEN {Msg("warning", "Parameter Check: threshold")} ELSE {})

\* Lines 259-316.  The result is what the handler returns with the
\* attributes it leaves behind: season_data is assigned before the
\* emptiness test, and the soil attributes are assigned one by one before a
\* later entry fails to parse.
process_data(df, fc_var, wp_var, thr_var, year, old_season, old_soil, msgs) ==
    IF df.is_none
    THEN [ret |-> FALSE, season_data |-> old_season, gui_soil |-> old_soil,
          messages |-> msgs \cup {Msg("error", "Error")}]
    ELSE IF ~fc_var.is_float
    THEN [ret |-> FALSE, season_data |-> old_season, gui_soil |-> old_soil,
          messages |-> msgs \cup {Msg("error", "Parameter Error")}]
    ELSE IF ~wp_var.is_float
    THEN [ret |-> FALSE, season_data |-> old_season,
          gui_soil |-> [old_soil EXCEPT !.field_capacity = fc_var.value],
          messages |-> msgs \cup {Msg("error", "Parameter Error")}]
    ELSE IF ~thr_var.is_float
    THEN [ret |-> FALSE, season_data |-> old_season,
          gui_soil |-> [old_soil EXCEPT !.field_capacity = fc_var.value,
                                        !.wilting_point = wp_var.value],
          messages |-> msgs \cup {Msg("error", "Parameter Error")}]
    ELSE LET soil == [field_capacity |-> fc_var.value, wilting_point |-> wp_var.value,
                      irrigation_threshold |-> thr_var.value]
             warned == msgs \cup ParameterWarnings(fc_var.value, wp_var.value, thr_var.value)
             start_date == Timestamp(year, 10, 1)
             end_date == Timestamp(year + 1, 3, 31)
             kept == RowsBetween(df.rows, start_date, end_date)
         IN  IF kept = << >>
             THEN [ret |-> FALSE, season_data |-> Frame(kept), gui_soil |-> soil,
                   messages |-> warned \cup {Msg("error", "Data Error: no climate data")}]
             ELSE LET with_day == AddDay(kept, start_date)
                      missing_cols == RequiredCols \ DOMAIN with_day[1]
                  IN  IF missing_cols # {}
                      THEN [ret |-> FALSE, season_data |-> Frame(with_day), gui_soil |-> soil,
                            messages |-> warned \cup {Msg("error", "Data Error: missing columns")}]
                      ELSE [ret |-> TRUE, season_data |-> Frame(with_day), gui_soil |-> soil,
                            messages |-> warned]

-----------------------------------------------------------------------------
(* Season windowing: one loaded series, windowed by either implementation. *)

SeasonYears == {2018, 2019}

\* 2018-09-30, 2018-10-01, 2019-03-31, 2019-04-01, 2020-02-29, 2020-03-01
SeasonDates ==
    { Timestamp(2018, 9, 30), Timestamp(2018, 10, 1), Timestamp(2019, 3, 31),
      Timestamp(2019, 4, 1), Timestamp(2020, 2, 29), Timestamp(2020, 3, 1) }

\* The shapes of a loaded series: every cell present, no PRECTOT column, or
\* the PRECTOT cell of the first row empty (NaN after read_csv).
SeriesShapes == {"full", "no_prectot", "nan_prectot"}

\* A loaded row; PRECTOT tells the rows of a series apart.  `isna` is the
\* row of DataFrame.isna(): the columns whose cell holds no value.
SeriesRow(date, k, shape) ==
    IF shape = "no_prectot"
    THEN [Date |-> date, T2M_MAX |-> 30, T2M_MIN |-> 15, ALLSKY_SFC_SW_DWN |-> 20,
          isna |-> {}]
    ELSE [Date |-> date, PRECTOT |-> 1000 * k, T2M_MAX |-> 30, T2M_MIN |-> 15,
          ALLSKY_SFC_SW_DWN |-> 20,
          isna |-> IF shape = "nan_prectot" /\ k = 1 THEN {"PRECTOT"} ELSE {}]

\* Loaded series of 0..MaxSeries rows in any date order and of any shape.
ClimateSeries ==
    UNION { { Frame([k \in 1..n |-> SeriesRow(ds[k], k, p)]) :
                ds \in [1..n -> SeasonDates], p \in SeriesShapes } : n \in 0..MaxSeries }

\* The three soil entries as the user left them.
SoilEntries ==
    { << Text(150000), Text(75000), Text(75000) >>,
      << Text(120000), Text(60000), Text(90000) >>,
      << Text(100000), BadText, Text(150000) >> }

InitSeason ==
    /\ IdleSimulate
    /\ kc_data = NoneFrame
    /\ climate_data \in ClimateSeries \cup {NoneFrame}
    /\ IdleFiles
    /\ climate_data_df = climate_data
    /\ season_data = NoneFrame
    /\ \E e \in SoilEntries :
          /\ field_capacity_var = e[1]
          /\ wilting_point_var = e[2]
          /\ irrigation_threshold_var = e[3]
    /\ year_var \in SeasonYears
    /\ gui_soil = [field_capacity |-> 150000, wilting_point |-> 75000,
                   irrigation_threshold |-> 75000]
    /\ messages = {}
    /\ pc = "idle"
    /\ call = [op |-> "none"]
    /\ ret = Returned(0)

\* One call filter_growing_season(year, start_month, end_month).
FilterGrowingSeason ==
    /\ pc = "idle"
    /\ \E year \in SeasonYears, start_month \in 1..12, end_month \in 1..12 :
          /\ call' = [op |-> "filter_growing_season", year |-> year,
                      start_month |-> start_month, end_month |-> end_month]
          /\ ret' = filter_growing_season(climate_data, year, start_month, end_month)
    /\ pc' = IF ret'.exc = "none" THEN "returned" ELSE "raised"
    /\ UNCHANGED << kc_data, climate_data >>
    /\ unchanged_simulate
    /\ unchanged_gui

\* One call process_data() of the window.
ProcessData ==
    /\ pc = "idle"
    /\ LET r == process_data(climate_data_df, field_capacity_var, wilting_point_var,
                             irrigation_threshold_var, year_var, season_data,
                             gui_soil, {})
       IN  /\ ret' = Returned(r.ret)
           /\ season_data' = r.season_data
           /\ gui_soil' = r.gui_soil
           /\ messages' = r.messages
    /\ call' = [op |-> "process_data"]
    /\ pc' = "returned"
    /\ UNCHANGED << kc_data, climate_data, climate_data_df, field_capacity_var,
                    wilting_point_var, irrigation_threshold_var, year_var,
                    soil_data_df, kc_data_df, climate_file_var, soil_file_var,
                    kc_file_var, simulation_results, displayed, last_run, exported >>
    /\ unchanged_simulate

NextSeason == FilterGrowingSeason \/ ProcessData

SpecSeason == InitSeason /\ [][NextSeason]_vars

-----------------------------------------------------------------------------
(* Claims about season windowing, checked under SpecSeason.                *)

Filtered == call.op = "filter_growing_season" /\ ret.exc = "none"

\* The window the claims describe for year y and months (sm, em): the first
\* day of sm in year y to the last day of em, a year later when em < sm.
ClaimedStart(y, sm) == Timestamp(y, sm, 1)
ClaimedEnd(y, sm, em) ==
    LET ey == IF em < sm THEN y + 1 ELSE y
    IN  Timestamp(ey, em, DaysInMonth(ey, em))

\* C8: the window of filter_growing_season(Y, start_month, end_month) starts
\* on the first day of start_month of year Y and ends on the last day of
\* end_month, in year Y+1 when end_month < start_month and in year Y
\* otherwise.
C8_SeasonWindow ==
    call.op = "filter_growing_season" =>
        LET w == SeasonWindow(call.year, call.start_month, call.end_month)
        IN  /\ w.start_date = ClaimedStart(call.year, call.start_month)
            /\ w.end_date = ClaimedEnd(call.year, call.start_month, call.end_month)

\* A season that ends in February of a leap year, a year after it starts,
\* and keeps the record of 29 February.
C8_Witness ==
    /\ Filtered
    /\ call.year = 2019 /\ call.start_month = 10 /\ call.end_month = 2
    /\ \E k \in 1..Len(ret.value.rows) : ret.value.rows[k].Date = Timestamp(2020, 2, 29)

\* The input rows dated within [lo, hi], as positions of the series.
InWindow(rows, lo, hi) == { k \in 1..Len(rows) : lo <= rows[k].Date /\ rows[k].Date <= hi }

\* `out` holds exactly the rows of `rows` dated within [lo, hi], in input
\* order, each unchanged but for its Day = whole days since lo, which is >= 0.
RetainsWindow(out, rows, lo, hi) ==
    LET keep == InWindow(rows, lo, hi)
    IN  /\ Len(out) = Cardinality(keep)
        /\ \A k \in keep :
              LET j == Cardinality({ h \in keep : h <= k })
              IN  /\ out[j].Day = rows[k].Date - lo
                  /\ out[j].Day >= 0
                  /\ DOMAIN out[j] = DOMAIN rows[k] \cup {"Day"}
                  /\ \A f \in DOMAIN rows[k] : out[j][f] = rows[k][f]
                  /\ rows[k].Date = lo => out[j].Day = 0

\* C9: season filtering retains exactly the records dated within
\* [season_start, season_end], both inclusive, in input order, each with
\* day_after_planting = whole days from season_start (0 on season_start).
C9_FilterRetainsWindow ==
    /\ Filtered =>
          RetainsWindow(ret.value.rows, climate_data.rows,
                        ClaimedStart(call.year, call.start_month),
                        ClaimedEnd(call.year, call.start_month, call.end_month))
    /\ (call.op = "process_data" /\ ret.value = TRUE) =>
          RetainsWindow(season_data.rows, climate_data_df.rows,
                        Timestamp(year_var, 10, 1), Timestamp(year_var + 1, 3, 31))

\* A two-row series given out of date order, with one row on the last day
\* of the season, which is kept, and one on the day after it, which is not.
C9_Witness ==
    /\ Filtered
    /\ call.year = 2018 /\ call.start_month = 10 /\ call.end_month = 3
    /\ Len(climate_data.rows) = 2
    /\ climate_data.rows[1].Date = Timestamp(2019, 4, 1)
    /\ climate_data.rows[2].Date = Timestamp(2019, 3, 31)
    /\ Len(ret.value.rows) = 1
    /\ ret.value.rows[1].Day = 181

\* C10: season windowing fails with an empty-season error whenever no
\* record of the loaded series falls inside the season date range; it never
\* returns an empty season to the caller.
C10_EmptySeasonRejected ==
    /\ (call.op = "filter_growing_season" /\ ~climate_data.is_none) =>
          (InWindow(climate_data.rows,
                    ClaimedStart(call.year, call.start_month),
                    ClaimedEnd(call.year, call.start_month, call.end_month)) = {}
             => ret.exc # "none")
    /\ (call.op = "process_data" /\ ~climate_data_df.is_none) =>
          (InWindow(climate_data_df.rows, Timestamp(year_var, 10, 1),
                    Timestamp(year_var + 1, 3, 31)) = {}
             => ret.value = FALSE)

\* The weather columns the simulation reads.
WeatherCols == {"T2M_MAX", "T2M_MIN", "ALLSKY_SFC_SW_DWN", "PRECTOT"}

\* The record has a value in every weather column.
HasWeather(r) == WeatherCols \subseteq DOMAIN r /\ r.isna \cap WeatherCols = {}

\* C11: season windowing fails with a missing-column error if any retained
\* record lacks a value for maximum temperature, minimum temperature, solar
\* radiation or precipitation; no such record is handed on towards
\* simulate(): a window that is returned, or accepted by process_data, holds
\* complete records only.
C11_MissingValueRejected ==
    /\ Filtered =>
          \A k \in 1..Len(ret.value.rows) : HasWeather(ret.value.rows[k])
    /\ (call.op = "process_data" /\ ret.value = TRUE) =>
          \A k \in 1..Len(season_data.rows) : HasWeather(season_data.rows[k])

-----------------------------------------------------------------------------
(* Calls of analyze_results on a results frame.                            *)

\* Lengths of a run of equal days: around the counts the label tests.
RunLengths == {0, 1, 10, 11, 20, 21}

\* Soil moisture of a day, placed against the profile's wilting point and
\* threshold: at and next to the bounds the two stress counts test.
MoistureLevels(fc, wp, thr) == {wp, wp + 9999, wp + 10000, thr - 1, thr, fc}

\* A row of a results frame: the columns simulate() leaves in it.
AnalysisRow(k, moisture, irrigation) ==
    [Date |-> Timestamp(2018, 10, 1) + k - 1, PRECTOT |-> 1000 * (k % 3), T2M_MAX |-> 30,
     T2M_MIN |-> 15, ALLSKY_SFC_SW_DWN |-> 20, Day |-> k - 1, ETo |-> 5000,
     Kc |-> 300, ETc |-> 1500, Soil_Moisture |-> moisture, Irrigation |-> irrigation]

\* Results frames of two runs of equal days: n1 days at moisture m1, each
\* irrigated by irr1, then n2 days at m2 irrigated by irr2.
AnalysisFrames(fc, wp, thr) ==
    { [k \in 1..(n1 + n2) |->
          IF k <= n1 THEN AnalysisRow(k, m1, irr1) ELSE AnalysisRow(k, m2, irr2)] :
        n1 \in RunLengths, n2 \in RunLengths,
        m1 \in MoistureLevels(fc, wp, thr), m2 \in MoistureLevels(fc, wp, thr),
        irr1 \in {0, 25000}, irr2 \in {0, -5000} }

InitAnalyze ==
    /\ \E p \in SoilProfiles :
          /\ field_capacity = p[1]
          /\ wilting_point = p[2]
          /\ irrigation_threshold = p[3]
          /\ results \in AnalysisFrames(p[1], p[2], p[3])
    /\ kc_data = NoneFrame
    /\ climate_data = NoneFrame
    /\ row_dtype = "object"
    /\ initial_moisture = NoneNum
    /\ history = << >>
    /\ i = 0
    /\ pc = "idle"
    /\ call = [op |-> "none", nth |-> 0]
    /\ ret = Returned(0)
    /\ IdleGui

\* The nth call analyze_results(results) on the model.  The method reads the
\* frame and the model's parameters and assigns only its local dict.
AnalyzeResults ==
    /\ pc \in {"idle", "returned"}
    /\ call.nth < MaxCalls
    /\ call' = [op |-> "analyze_results", nth |-> call.nth + 1]
    /\ ret' = Returned(analyze_results(results, wilting_point, irrigation_threshold))
    /\ pc' = "returned"
    /\ UNCHANGED << kc_data, climate_data >>
    /\ unchanged_simulate
    /\ unchanged_gui

SpecAnalyze == InitAnalyze /\ [][AnalyzeResults]_vars

-----------------------------------------------------------------------------
(* Claims about analyze_results, checked under SpecAnalyze.                *)

Analyzed == call.op = "analyze_results" /\ pc = "returned"

\* The days of the analysed frame that satisfy a test, day 0 included.
DaysWhere(Test(_)) == { k \in 1..Len(results) : Test(results[k]) }

\* The sum of a column, value by value: each value times the days holding it.
RECURSIVE SumOfValues(_, _)
SumOfValues(values, col) ==
    IF values = {} THEN 0
    ELSE LET v == CHOOSE x \in values : TRUE
         IN  v * Cardinality(DaysWhere(LAMBDA r : r[col] = v))
             + SumOfValues(values \ {v}, col)

ColumnTotal(col) == SumOfValues({ results[k][col] : k \in 1..Len(results) }, col)

\* C15: analyze() returns, over all days of the result including day 0, the
\* plain sums of irrigation, rainfall and ETc; the number of days with
\* irrigation > 0; the number of days with moisture strictly below the
\* irrigation threshold; and the number of days with moisture strictly below
\* wilting_point + 10.
C15_SummaryCounts ==
    Analyzed =>
        /\ ret.value.total_irrigation = ColumnTotal("Irrigation")
        /\ ret.value.total_rainfall = ColumnTotal("PRECTOT")
        /\ ret.value.total_etc = ColumnTotal("ETc")
        /\ ret.value.irrigation_events =
               Cardinality(DaysWhere(LAMBDA r : r.Irrigation > 0))
        /\ ret.value.stress_days =
               Cardinality(DaysWhere(LAMBDA r : r.Soil_Moisture < irrigation_threshold))
        /\ ret.value.severe_stress_days =
               Cardinality(DaysWhere(LAMBDA r : r.Soil_Moisture < wilting_point + 10000))

\* A frame whose day 0 is stressed and irrigated, with a later day exactly at
\* the threshold, a day exactly at wilting_point + 10 and a day of negative
\* irrigation.
C15_Witness ==
    /\ Analyzed
    /\ Len(results) > 1
    /\ results[1].Soil_Moisture < irrigation_threshold
    /\ results[1].Irrigation > 0
    /\ \E k \in 2..Len(results) : results[k].Soil_Moisture = irrigation_threshold
    /\ \E k \in 2..Len(results) : results[k].Soil_Moisture = wilting_point + 10000
    /\ \E k \in 2..Len(results) : results[k].Irrigation < 0
    /\ ret.value.stress_days > 0
    /\ ret.value.stress_days < Len(results)

\* C16: the yield label is assigned by first match: Low when the severe
\* count is > 10, whatever the stress count; otherwise Medium when the stress
\* count is > 20; otherwise High.  Exactly one label is assigned, and counts
\* of exactly 10 and exactly 20 trigger neither Low nor Medium.
C16_YieldLabel ==
    Analyzed =>
        LET severe == ret.value.severe_stress_days
            stress == ret.value.stress_days
            label  == ret.value.yield_potential
        IN  /\ label \in {"Low (< 5 tons/ha)", "Medium (5-6 tons/ha)", "High (6-7 tons/ha)"}
            /\ (label = "Low (< 5 tons/ha)") <=> (severe > 10)
            /\ (label = "Medium (5-6 tons/ha)") <=> (severe <= 10 /\ stress > 20)
            /\ (label = "High (6-7 tons/ha)") <=> (severe <= 10 /\ stress <= 20)
            /\ (severe = 10 /\ stress = 20) => label = "High (6-7 tons/ha)"

\* A frame with exactly 10 severe days and more than 20 stressed days,
\* labelled Medium.
C16_Witness ==
    /\ Analyzed
    /\ ret.value.severe_stress_days = 10
    /\ ret.value.stress_days > 20
    /\ ret.value.yield_potential = "Medium (5-6 tons/ha)"

\* C17: water_savings = 500 - total_irrigation and water_savings_percent =
\* water_savings / 500 * 100 for every result, whatever its length and the
\* soil; the savings are negative exactly when total irrigation exceeds 500.
C17_WaterSavings ==
    Analyzed =>
        LET total == ColumnTotal("Irrigation")
        IN  /\ ret.value.water_savings = 500000 - total
            /\ 5 * ret.value.water_savings_percent = ret.value.water_savings
            /\ (ret.value.water_savings < 0) <=> (total > 500000)

\* A frame whose irrigation sums to more than 500 mm: negative savings.
C17_Witness ==
    /\ Analyzed
    /\ ColumnTotal("Irrigation") > 500000
    /\ ret.value.water_savings < 0
    /\ ret.value.water_savings_percent < 0

-----------------------------------------------------------------------------
(* Claims about calls of simulate() as a whole, checked under Spec and      *)
(* SpecRepeat.                                                             *)

\* The frames the calls of simulate() so far have returned, in call order.
SimulateReturns == SelectSeq(history, LAMBDA h : h.op = "simulate")

\* The step-by-step run and the call taken as a whole return the same frame.
StepsAgreeWithCall ==
    pc = "returned" =>
        Returned(results) \in simulate(climate_data, initial_moisture, field_capacity,
                                       wilting_point, irrigation_threshold, kc_data,
                                       row_dtype)

DaysCarryRecords ==
    /\ Len(results) = Len(climate_data.rows)
    /\ \A k \in 1..Len(results) :
          /\ results[k].Date = climate_data.rows[k].Date
          /\ results[k].PRECTOT = climate_data.rows[k].PRECTOT
          /\ results[k].T2M_MAX = climate_data.rows[k].T2M_MAX
          /\ results[k].T2M_MIN = climate_data.rows[k].T2M_MIN
          /\ results[k].ALLSKY_SFC_SW_DWN = climate_data.rows[k].ALLSKY_SFC_SW_DWN

\* C20: simulate() leaves its input records unchanged, and the result it
\* builds has exactly one day per input record, in input order, each with
\* that record's own date and weather.
C20_InputUntouched ==
    /\ [](pc \in {"loop", "returned"} => DaysCarryRecords)
    /\ [][climate_data' = climate_data]_vars

\* A returned season of MaxDays days whose records differ in weather, with
\* moisture and irrigation written to a day.
C20_Witness ==
    /\ pc = "returned"
    /\ Len(results) = MaxDays
    /\ results[1].PRECTOT # results[2].PRECTOT
    /\ results[2].T2M_MAX # results[3].T2M_MAX
    /\ \E k \in 2..Len(results) : results[k].Irrigation > 0
    /\ "Irrigation" \notin DOMAIN climate_data.rows[1]

-----------------------------------------------------------------------------
(* IrrigationSimulator.load_data and run_simulation                        *)

\* The attributes and entries of the window that load_data() reads and
\* assigns, with no message box shown yet.
Window ==
    [climate_data_df |-> climate_data_df, soil_data_df |-> soil_data_df,
     kc_data_df |-> kc_data_df, climate_file_var |-> climate_file_var,
     soil_file_var |-> soil_file_var, kc_file_var |-> kc_file_var,
     field_capacity_var |-> field_capacity_var,
     wilting_point_var |-> wilting_point_var,
     irrigation_threshold_var |-> irrigation_threshold_var, year_var |-> year_var,
     gui_soil |-> gui_soil, season_data |-> season_data, messages |-> {}]

\* A step of load_data(): the window it leaves and the exception it raises.
Went(w) == [w |-> w, exc |-> "none"]
Broke(w, exc) == [w |-> w, exc |-> exc]

\* Lines 202-207: the climate data.
load_data_climate(w) ==
    IF ~w.climate_data_df.is_none THEN Went(w)
    ELSE IF w.climate_file_var.text = "path"
    THEN IF w.climate_file_var.file.is_none THEN Broke(w, "FileNotFoundError")
         ELSE Went([w EXCEPT !.climate_data_df = w.climate_file_var.file])
    ELSE Broke(w, "ValueError")

\* Lines 210-231: the soil data.  A file sets the two attributes, the three
\* entries and the threshold, as far as its columns go; without a file the
\* two attributes are read from the entries.
load_data_soil(w) ==
    IF ~w.soil_data_df.is_none THEN Went(w)
    ELSE IF w.soil_file_var.text = "path"
    THEN IF w.soil_file_var.file.is_none THEN Broke(w, "FileNotFoundError")
         ELSE LET file == w.soil_file_var.file
                  loaded == [w EXCEPT !.soil_data_df = file]
                  warned == [loaded EXCEPT !.messages = @ \cup {Msg("warning", "Soil Data Warning")}]
              IN  IF file.rows = << >> THEN Went(loaded)
                  ELSE IF "Field_Capacity" \notin DOMAIN file.rows[1] THEN Went(warned)
                  ELSE IF "Wilting_Point" \notin DOMAIN file.rows[1]
                  THEN Went([warned EXCEPT !.gui_soil.field_capacity = file.rows[1].Field_Capacity])
                  ELSE LET fc == file.rows[1].Field_Capacity
                           wp == file.rows[1].Wilting_Point
                       IN  Went([loaded EXCEPT
                                   !.gui_soil = [field_capacity |-> fc, wilting_point |-> wp,
                                                 irrigation_threshold |-> fc \div 2],
                                   !.field_capacity_var = Text(fc),
                                   !.wilting_point_var = Text(wp),
                                   !.irrigation_threshold_var = Text(fc \div 2)])
    ELSE LET warned == [w EXCEPT !.messages = @ \cup {Msg("warning", "Soil Data Missing")}]
         IN  IF ~w.field_capacity_var.is_float THEN Broke(warned, "ValueError")
             ELSE IF ~w.wilting_point_var.is_float
             THEN Broke([warned EXCEPT !.gui_soil.field_capacity = w.field_capacity_var.value],
                        "ValueError")
             ELSE Went([warned EXCEPT !.gui_soil.field_capacity = w.field_capacity_var.value,
                                      !.gui_soil.wilting_point = w.wilting_point_var.value])

\* Lines 235-241: the Kc data.
load_data_kc(w) ==
    IF ~w.kc_data_df.is_none THEN Went(w)
    ELSE IF w.kc_file_var.text = "path"
    THEN IF w.kc_file_var.file.is_none THEN Broke(w, "FileNotFoundError")
         ELSE Went([w EXCEPT !.kc_data_df = w.kc_file_var.file])
    ELSE Went([w EXCEPT !.messages = @ \cup {Msg("warning", "Kc Data Missing")}])

\* Lines 247-255: the error box of an exception.
ErrorBox(exc) ==
    IF exc = "FileNotFoundError" THEN Msg("error", "File Not Found")
    ELSE IF exc = "ValueError" THEN Msg("error", "Input Error")
    ELSE Msg("error", "Error")

\* A slip in load_data: the handlers of lines 247-255 show their box and
\* fall through to a `return True` at the end of the method.
load_data_falls_through(w) ==
    LET a == load_data_climate(w)
        b == IF a.exc = "none" THEN load_data_soil(a.w) ELSE a
        c == IF b.exc = "none" THEN load_data_kc(b.w) ELSE b
    IN  IF c.exc # "none"
        THEN [ret |-> TRUE, w |-> [c.w EXCEPT !.messages = @ \cup {ErrorBox(c.exc)}]]
        ELSE LET r == process_data(c.w.climate_data_df, c.w.field_capacity_var,
                                   c.w.wilting_point_var, c.w.irrigation_threshold_var,
                                   c.w.year_var, c.w.season_data, c.w.gui_soil,
                                   c.w.messages)
             IN  [ret |-> r.ret,
                  w |-> [c.w EXCEPT !.season_data = r.season_data,
                                    !.gui_soil = r.gui_soil, !.messages = r.messages]]

\* Lines 198-255: what load_data() returns and the window it leaves.
load_data(w) ==
    LET a == load_data_climate(w)
        b == IF a.exc = "none" THEN load_data_soil(a.w) ELSE a
        c == IF b.exc = "none" THEN load_data_kc(b.w) ELSE b
    IN  IF c.exc # "none"
        THEN [ret |-> FALSE, w |-> [c.w EXCEPT !.messages = @ \cup {ErrorBox(c.exc)}]]
        ELSE LET r == process_data(c.w.climate_data_df, c.w.field_capacity_var,
                                   c.w.wilting_point_var, c.w.irrigation_threshold_var,
                                   c.w.year_var, c.w.season_data, c.w.gui_soil,
                                   c.w.messages)
             IN  [ret |-> r.ret,
                  w |-> [c.w EXCEPT !.season_data = r.season_data,
                                    !.gui_soil = r.gui_soil, !.messages = r.messages]]

-----------------------------------------------------------------------------
(* The window in use: files are chosen, entries edited, simulations run.   *)

\* Climate files: two days of October 2015 with every column, the same
\* without the PRECTOT column, a day whose minimum temperature exceeds its
\* maximum, and a path to no file.
GuiClimateFiles ==
    { Frame(<< SeriesRow(Timestamp(2015, 10, 1), 1, "full"),
               SeriesRow(Timestamp(2015, 10, 2), 2, "full") >>),
      Frame(<< SeriesRow(Timestamp(2015, 10, 1), 1, "no_prectot"),
               SeriesRow(Timestamp(2015, 10, 2), 2, "no_prectot") >>),
      Frame(<< [SeriesRow(Timestamp(2015, 10, 1), 1, "full")
                   EXCEPT !.T2M_MAX = 10, !.T2M_MIN = 20] >>),
      NoneFrame }

\* Soil files: a row with both columns, and a row without the wilting point.
GuiSoilFiles ==
    { Frame(<< [Field_Capacity |-> 160000, Wilting_Point |-> 60000] >>),
      Frame(<< [Field_Capacity |-> 160000] >>) }

\* Kc files: a sample on day 0, and a single sample on day 1.
GuiKcFiles ==
    { Frame(<< [dap |-> 0, Kc |-> 1200] >>), Frame(<< [dap |-> 10, Kc |-> 1200] >>) }

\* The years the user selects: the season of the files, and the one after.
GuiYears == {2015, 2016}

\* What the user types into the three soil entries.
GuiSoilEntries == SoilEntries \cup { << Text(100000), Text(50000), Text(150000) >> }

InitGui ==
    /\ IdleSimulate
    /\ kc_data = NoneFrame
    /\ climate_data = NoneFrame
    /\ pc = "idle"
    /\ call = [op |-> "none", nth |-> 0]
    /\ ret = Returned(0)
    /\ IdleGui

\* The next handler runs, if the session is not over.
Handler(op) ==
    /\ call.nth < MaxEvents
    /\ call' = [op |-> op, nth |-> call.nth + 1]

unchanged_call_state == UNCHANGED << results, history, i, pc, ret >>

unchanged_last_model ==
    UNCHANGED << field_capacity, wilting_point, irrigation_threshold, kc_data,
                 climate_data, row_dtype, initial_moisture >>

\* browse_file(file_type) with a file chosen in the dialog.
BrowseFile ==
    /\ Handler("browse_file")
    /\ \/ /\ \E f \in GuiClimateFiles : climate_file_var' = Path(f)
          /\ climate_data_df' = NoneFrame
          /\ UNCHANGED << soil_file_var, soil_data_df, kc_file_var, kc_data_df >>
       \/ /\ \E f \in GuiSoilFiles : soil_file_var' = Path(f)
          /\ soil_data_df' = NoneFrame
          /\ UNCHANGED << climate_file_var, climate_data_df, kc_file_var, kc_data_df >>
       \/ /\ \E f \in GuiKcFiles : kc_file_var' = Path(f)
          /\ kc_data_df' = NoneFrame
          /\ UNCHANGED << climate_file_var, climate_data_df, soil_file_var, soil_data_df >>
    /\ UNCHANGED << simulation_results, displayed, last_run, exported, season_data,
                    field_capacity_var, wilting_point_var, irrigation_threshold_var,
                    year_var, gui_soil, messages >>
    /\ unchanged_call_state
    /\ unchanged_last_model

\* The user retypes the three soil entries.
EditSoilEntries ==
    /\ \E e \in GuiSoilEntries :
          /\ field_capacity_var' = e[1]
          /\ wilting_point_var' = e[2]
          /\ irrigation_threshold_var' = e[3]
    /\ Handler("edit_soil_entries")
    /\ UNCHANGED << climate_data_df, soil_data_df, kc_data_df, climate_file_var,
                    soil_file_var, kc_file_var, simulation_results, displayed,
                    last_run, exported, season_data, year_var, gui_soil, messages >>
    /\ unchanged_call_state
    /\ unchanged_last_model

\* The user selects a year in the combobox.
SelectYear ==
    /\ \E y \in GuiYears : year_var' = y
    /\ Handler("select_year")
    /\ UNCHANGED << climate_data_df, soil_data_df, kc_data_df, climate_file_var,
                    soil_file_var, kc_file_var, simulation_results, displayed,
                    last_run, exported, season_data, field_capacity_var, wilting_point_var,
                    irrigation_threshold_var, gui_soil, messages >>
    /\ unchanged_call_state
    /\ unchanged_last_model

\* The window as load_data() and process_data() leave it, showing `boxes`.
LeaveWindow(w, boxes) ==
    /\ climate_data_df' = w.climate_data_df
    /\ soil_data_df' = w.soil_data_df
    /\ kc_data_df' = w.kc_data_df
    /\ field_capacity_var' = w.field_capacity_var
    /\ wilting_point_var' = w.wilting_point_var
    /\ irrigation_threshold_var' = w.irrigation_threshold_var
    /\ gui_soil' = w.gui_soil
    /\ season_data' = w.season_data
    /\ messages' = boxes
    /\ UNCHANGED << climate_file_var, soil_file_var, kc_file_var, year_var >>

\* Lines 391-413 with create_summary (549-561): the tabs are rebuilt from
\* simulation_results and the summary of a model made from the entries.
display_results(rows, wp_var, thr_var, year) ==
    [shown |-> TRUE, rows |-> rows, year |-> year,
     summary |-> analyze_results(rows, wp_var.value, thr_var.value)]

\* run_simulation(), lines 323-388: load_data(), the model built from the
\* entries, simulate() on a copy of season_data, display_results().
RunSimulation ==
    /\ Handler("run_simulation")
    /\ unchanged_call_state
    /\ UNCHANGED exported
    /\ LET ld == load_data(Window)
           w == ld.w
           parsed == /\ w.field_capacity_var.is_float
                     /\ w.wilting_point_var.is_float
                     /\ w.irrigation_threshold_var.is_float
           fc == w.field_capacity_var.value
           wp == w.wilting_point_var.value
           thresh == w.irrigation_threshold_var.value
       IN  IF ~ld.ret
           THEN /\ LeaveWindow(w, w.messages)
                /\ last_run' = [load_data |-> FALSE, simulate_called |-> FALSE,
                                simulate_raised |-> FALSE]
                /\ UNCHANGED << simulation_results, displayed >>
                /\ unchanged_last_model
           ELSE IF w.season_data.is_none \/ w.season_data.rows = << >>
           THEN /\ LeaveWindow(w, w.messages \cup {Msg("error", "Error")})
                /\ last_run' = [load_data |-> TRUE, simulate_called |-> FALSE,
                                simulate_raised |-> FALSE]
                /\ UNCHANGED << simulation_results, displayed >>
                /\ unchanged_last_model
           ELSE IF ~parsed
           THEN /\ LeaveWindow(w, w.messages \cup {Msg("error", "Simulation Error")})
                /\ last_run' = [load_data |-> TRUE, simulate_called |-> FALSE,
                                simulate_raised |-> FALSE]
                /\ simulation_results' = NoneFrame
                /\ UNCHANGED displayed
                /\ unchanged_last_model
           ELSE /\ field_capacity' = fc
                /\ wilting_point' = wp
                /\ irrigation_threshold' = thresh
                /\ kc_data' = w.kc_data_df
                /\ climate_data' = w.season_data
                /\ initial_moisture' = Num((7 * fc) \div 10)
                /\ row_dtype' = "object"
                /\ \E out \in simulate(w.season_data, Num((7 * fc) \div 10), fc, wp,
                                       thresh, w.kc_data_df, "object") :
                      IF out.exc # "none"
                      THEN /\ LeaveWindow(w, w.messages \cup {Msg("error", "Simulation Error")})
                           /\ last_run' = [load_data |-> TRUE, simulate_called |-> TRUE,
                                           simulate_raised |-> TRUE]
                           /\ simulation_results' = NoneFrame
                           /\ UNCHANGED displayed
                      ELSE /\ LeaveWindow(w, w.messages)
                           /\ last_run' = [load_data |-> TRUE, simulate_called |-> TRUE,
                                           simulate_raised |-> FALSE]
                           /\ simulation_results' = Frame(out.value)
                           /\ displayed' = display_results(out.value, w.wilting_point_var,
                                                           w.irrigation_threshold_var,
                                                           year_var)

\* Lines 631-634: the columns of the exported CSV, in this order.
export_cols ==
    {"Date", "PRECTOT", "T2M_MAX", "T2M_MIN", "ALLSKY_SFC_SW_DWN", "ETo", "Kc",
     "ETc", "Soil_Moisture", "Irrigation", "Day"}

\* Lines 636-638: the columns of export_cols that the frame has, written
\* with three decimals, which is the resolution of the quantities here.
export_data(rows) ==
    [k \in 1..Len(rows) |->
        [c \in export_cols \cap DOMAIN rows[k] |-> rows[k][c]]]

\* export_results(), lines 613-683.  The summary is recomputed by a model
\* made from the three entries as they read now (lines 646-650); exported
\* holds the frame written to the CSV and the year, parameters and
\* summary_data the lines of the summary file are formatted from.  An entry
\* that does not parse raises at lines 646-648, after the CSV is written.
ExportResults ==
    /\ Handler("export_results")
    /\ unchanged_call_state
    /\ unchanged_last_model
    /\ UNCHANGED << climate_data_df, soil_data_df, kc_data_df, climate_file_var,
                    soil_file_var, kc_file_var, simulation_results, displayed,
                    last_run, season_data, field_capacity_var, wilting_point_var,
                    irrigation_threshold_var, year_var, gui_soil >>
    /\ IF simulation_results.is_none
       THEN /\ messages' = {Msg("info", "No Results")}
            /\ UNCHANGED exported
       ELSE \E filename \in {"", "results.csv"} :
               IF filename = ""
               THEN UNCHANGED << exported, messages >>
               ELSE LET csv == [NothingExported EXCEPT
                                   !.csv_written = TRUE,
                                   !.rows = export_data(simulation_results.rows)]
                    IN  IF ~(/\ field_capacity_var.is_float
                             /\ wilting_point_var.is_float
                             /\ irrigation_threshold_var.is_float)
                        THEN /\ exported' = csv
                             /\ messages' = {Msg("error", "Export Error")}
                        ELSE /\ exported' =
                                  [csv EXCEPT
                                      !.summary_written = TRUE,
                                      !.year = year_var,
                                      !.soil = [field_capacity |-> field_capacity_var.value,
                                                wilting_point |-> wilting_point_var.value,
                                                irrigation_threshold |->
                                                    irrigation_threshold_var.value],
                                      !.summary = analyze_results(
                                                      simulation_results.rows,
                                                      wilting_point_var.value,
                                                      irrigation_threshold_var.value)]
                             /\ messages' = {Msg("info", "Export Complete")}

NextGui ==
    BrowseFile \/ EditSoilEntries \/ SelectYear \/ RunSimulation \/ ExportResults

SpecGui == InitGui /\ [][NextGui]_vars

-----------------------------------------------------------------------------
(* Claims about run_simulation(), checked under SpecGui.                   *)

RunDone == call.op = "run_simulation"

\* The climate series a run works on: the one already loaded, else the file
\* the entry names; NoneFrame when there is neither.
ClimateAtRun ==
    IF ~climate_data_df.is_none THEN climate_data_df
    ELSE IF climate_file_var.text = "path" THEN climate_file_var.file
    ELSE NoneFrame

\* The positions of that series inside the selected season.
SeasonAtRun ==
    InWindow(ClimateAtRun.rows, Timestamp(year_var, 10, 1), Timestamp(year_var + 1, 3, 31))

\* The fatal errors of a run: no climate data, an empty season, or a
\* retained record without one of the weather columns.
FatalError ==
    \/ ClimateAtRun.is_none
    \/ SeasonAtRun = {}
    \/ \E k \in SeasonAtRun : ~(WeatherCols \subseteq DOMAIN ClimateAtRun.rows[k])

\* C12: a run that hits a fatal error (climate data not loaded, empty
\* season, missing required column) aborts before simulate(): simulate() is
\* not called, and the stored and the displayed result stay as they were
\* before the run.
C12_FatalErrorAborts ==
    [][ (call'.op = "run_simulation" /\ FatalError) =>
          /\ ~last_run'.simulate_called
          /\ simulation_results' = simulation_results
          /\ displayed' = displayed
          /\ \E m \in messages' : m.kind = "error" ]_vars

\* A run stopped for a missing column while the result of an earlier run is
\* stored and displayed.
C12_Witness ==
    /\ RunDone
    /\ ~last_run.load_data
    /\ Msg("error", "Data Error: missing columns") \in messages
    /\ ~simulation_results.is_none
    /\ displayed.shown
    /\ displayed.rows = simulation_results.rows

\* After a run: the three entries parse and break wp < thr < fc.
OrderViolated ==
    /\ field_capacity_var.is_float
    /\ wilting_point_var.is_float
    /\ irrigation_threshold_var.is_float
    /\ \/ wilting_point_var.value >= irrigation_threshold_var.value
       \/ irrigation_threshold_var.value >= field_capacity_var.value

\* After a run: every file named was found, climate data are loaded, and the
\* selected season holds records with all weather columns.
DataLoaded ==
    /\ ~climate_data_df.is_none
    /\ ~(soil_data_df.is_none /\ soil_file_var.text = "path")
    /\ ~(kc_data_df.is_none /\ kc_file_var.text = "path")
    /\ ~FatalError

\* C13: when the soil parameters violate wp < thr < fc, an advisory is shown
\* for the violation and the run is not aborted: simulate() is called on a
\* model with the given parameters, and what it returns is stored and
\* displayed, one day per record of the season.  simulate() raises only for
\* a record whose minimum temperature exceeds its maximum.
C13_ViolationAdvisory ==
    (RunDone /\ OrderViolated /\ DataLoaded) =>
        /\ \E m \in messages :
              /\ m.kind = "warning"
              /\ m.title \in {"Parameter Check: wilting point", "Parameter Check: threshold"}
        /\ last_run.simulate_called
        /\ field_capacity = field_capacity_var.value
        /\ wilting_point = wilting_point_var.value
        /\ irrigation_threshold = irrigation_threshold_var.value
        /\ last_run.simulate_raised =>
              \E k \in 1..Len(season_data.rows) :
                  season_data.rows[k].T2M_MIN > season_data.rows[k].T2M_MAX
        /\ ~last_run.simulate_raised =>
              /\ ~simulation_results.is_none
              /\ Len(simulation_results.rows) = Len(season_data.rows)
              /\ displayed.shown
              /\ displayed.rows = simulation_results.rows

\* A run with the threshold above field capacity that stored a result with
\* an irrigated day.
C13_Witness ==
    /\ RunDone
    /\ OrderViolated
    /\ irrigation_threshold_var.value > field_capacity_var.value
    /\ Msg("warning", "Parameter Check: threshold") \in messages
    /\ ~simulation_results.is_none
    /\ \E k \in 1..Len(simulation_results.rows) : simulation_results.rows[k].Irrigation > 0

\* The Kc table of the run has no sample on or before the day.
NoKcSample(day) ==
    \/ kc_data_df.is_none
    \/ \A k \in 1..Len(kc_data_df.rows) : kc_data_df.rows[k].dap > 10 * day

\* C14: every Kc lookup answered from the default curve because Kc data is
\* missing (no sample set, or no sample on or before the query day) is
\* accompanied by an advisory in that run.
C14_DefaultKcAdvised ==
    (RunDone /\ last_run.simulate_called /\ ~last_run.simulate_raised) =>
        \A k \in 1..Len(simulation_results.rows) :
            NoKcSample(simulation_results.rows[k].Day) =>
                Msg("warning", "Kc Data Missing") \in messages

-----------------------------------------------------------------------------
(* Whole seasons: simulate() on a season of two spells of weather, then    *)
(* analyze_results() on the frame it returned.                             *)

\* Days in one spell of weather.  Two spells make seasons of 2 to 24 days,
\* long enough for more than 20 stress days and more than 10 severe ones.
SpellLengths == {1, 10, 12}

\* Soil parameters [fc, wp, thr]: those of SoilProfiles, and profiles with
\* thr = fc and with wp = thr = fc.
SeasonProfiles ==
    SoilProfiles \cup { <<100000, 50000, 100000>>, <<90000, 90000, 90000>> }

SeasonFrames ==
    { Frame([k \in 1..(n1 + n2) |->
                ClimateRow(IF k <= n1 THEN w1 ELSE w2, d, k - 1)]) :
        w1 \in Weather, w2 \in Weather,
        n1 \in SpellLengths, n2 \in SpellLengths, d \in FirstDays }

\* The frame's columns are float64, as read_csv makes them: a day whose
\* maximum is below its minimum has ETo 0 and the run goes on.
InitLong ==
    /\ \E p \in SeasonProfiles :
          /\ field_capacity = p[1]
          /\ wilting_point = p[2]
          /\ irrigation_threshold = p[3]
    /\ kc_data = NoneFrame
    /\ climate_data \in SeasonFrames
    /\ row_dtype = "float64"
    /\ initial_moisture \in InitialMoistures
    /\ results = << >>
    /\ history = << >>
    /\ i = 0
    /\ pc = "call"
    /\ call = [op |-> "simulate"]
    /\ ret = Returned(0)
    /\ IdleGui

NextLong == SimulateEnter \/ SimulateDay \/ SimulateReturn \/ AnalyzeReturned

SpecLong == InitLong /\ [][NextLong]_vars

-----------------------------------------------------------------------------
(* Claims about whole seasons, checked under SpecLong.                     *)

WeaklyOrdered ==
    wilting_point <= irrigation_threshold /\ irrigation_threshold <= field_capacity

\* analyze_results() has answered on the returned frame; its summary.
SeasonAnalyzed ==
    history # << >> /\ history[Len(history)].op = "analyze_results"

SeasonSummary == history[Len(history)].value

\* The threshold test of line 74 fired on day k.
TestFired(k) == Candidate(k) < irrigation_threshold

\* The moisture of day k as it stands before the floor of lines 85-86.
BeforeFloor(k) ==
    LET m1 == IF TestFired(k) THEN Candidate(k) + (field_capacity - Candidate(k))
              ELSE Candidate(k)
    IN  Min(field_capacity, m1)

FiredDays == { k \in 2..Len(results) : TestFired(k) }

-----------------------------------------------------------------------------
(* The two season windows side by side, checked under SpecSeason.          *)

\* process_data() got as far as its filter: a series is loaded and the three
\* soil entries parse.
ReachesWindow ==
    /\ ~climate_data_df.is_none
    /\ field_capacity_var.is_float
    /\ wilting_point_var.is_float
    /\ irrigation_threshold_var.is_float

\* The season process_data() leaves for year y on the loaded series.
GuiSeason(y) ==
    process_data(climate_data_df, field_capacity_var, wilting_point_var,
                 irrigation_threshold_var, y, season_data, gui_soil, {}).season_data

\* C23: on one loaded series and one year, filter_growing_season(Y) with its
\* default months 10 and 3 and the window's process_data retain the same
\* records with the same Day values, whichever of the two has run.
C23_WindowsAgree ==
    /\ (call.op = "process_data" /\ ReachesWindow) =>
           season_data.rows = filter_growing_season(climate_data, year_var, 10, 3).value.rows
    /\ (Filtered /\ call.start_month = 10 /\ call.end_month = 3 /\ ReachesWindow) =>
           ret.value.rows = GuiSeason(call.year).rows

\* process_data() has kept a record of the last day of March with its Day
\* and left another record of the series out.
C23_Witness ==
    /\ call.op = "process_data"
    /\ ReachesWindow
    /\ \E k \in 1..Len(season_data.rows) :
          /\ season_data.rows[k].Date = Timestamp(year_var + 1, 3, 31)
          /\ season_data.rows[k].Day = 181
    /\ Len(season_data.rows) < Len(climate_data_df.rows)

-----------------------------------------------------------------------------
(* Claims about the summaries of the window, checked under SpecGui.        *)

\* The summary of the stored result under the parameters of the model whose
\* simulate() produced it: the last model run_simulation() built.
SummaryOfRun ==
    analyze_results(simulation_results.rows, wilting_point, irrigation_threshold)

\* run_simulation() has just stored and displayed a result.
JustDisplayed ==
    RunDone /\ last_run.simulate_called /\ ~last_run.simulate_raised

\* export_results() has just written a summary file.
JustExported == call.op = "export_results" /\ exported.summary_written

\* The displayed half of C24: the summary run_simulation() displays is the
\* summary of the stored result under the parameters given to simulate().
DisplayedSummaryOfRun ==
    JustDisplayed => displayed.summary = SummaryOfRun

\* C24: whatever the user edited, ran and exported before, a summary that is
\* displayed or exported is the summary of the stored result under the
\* field capacity, wilting point and threshold given to the simulate() call
\* that produced that result.
C24_SummaryUsesRunParameters ==
    /\ DisplayedSummaryOfRun
    /\ JustExported =>
          /\ exported.summary = SummaryOfRun
          /\ exported.soil = [field_capacity |-> field_capacity,
                              wilting_point |-> wilting_point,
                              irrigation_threshold |-> irrigation_threshold]

====
